---- MODULE Spec2Model ----
(***************************************************************************)
(* go-azure: a one-shot command line program that provisions a blob        *)
(* container and prints a shared access signature.  The repository holds   *)
(* four versions of package main:                                          *)
(*   main.go               data-plane flow: CreateContainer, genSaSToken   *)
(*                         (everything after line 108 is unreachable, and  *)
(*                         printSasToken is never called)                  *)
(*   part_000 lines 1-127  management-plane flow: get, create, get         *)
(*   part_000 lines 129-276  the same, then ListAccountSAS; the lookup     *)
(*                         result is tested with errors.As only            *)
(*   part_000 lines 278-431  the same, with err != nil tested first and    *)
(*                         both instants of the window re-parsed from text *)
(* A run is one process: the program, its environment and the remote       *)
(* container are fixed at the start, every remote call is one step.        *)
(***************************************************************************)
EXTENDS Integers, Sequences, FiniteSets, TLC

MainGo == "main.go"
Part1  == "part_000:1-127"
Part2  == "part_000:129-276"
Part3  == "part_000:278-431"
Programs == {MainGo, Part1, Part2, Part3}
LookupFirst == {Part1, Part2, Part3}

(***************************************************************************)
(* Bounds of the explored inputs.                                          *)
(***************************************************************************)
\* day number (days since 0001-01-01) of the day the program runs
BaseDay == 738778
\* most nanoseconds that pass between the two time.Now() of genSaSToken
MaxElapsed == 2
\* local hour of the day, second of the hour and nanosecond of the second
HoursOfDay == {0, 9, 12, 13, 23}
SecondsOfHour == {2523}
NanosOfSecond == {0, 156737300, 156737350}
\* offset of the local time zone from UTC, in hours
TZOffsets == {-12, -5, 0, 2}

(***************************************************************************)
(* time.Time: an instant, as hours since 0001-01-01T00:00:00Z, seconds of  *)
(* the hour and nanoseconds of the second.                                 *)
(***************************************************************************)
NanosPerSecond == 1000 * 1000 * 1000
SecondsPerHour == 60 * 60
HoursPerDay == 12 + 12

\* time.Time{}: what time.Parse returns together with an error
ZeroTime == [h |-> 0, s |-> 0, n |-> 0]

Instants ==
    { [h |-> (BaseDay * HoursPerDay) + hod, s |-> sec, n |-> ns] :
        hod \in HoursOfDay, sec \in SecondsOfHour, ns \in NanosOfSecond }

\* Time.Add for a duration given as hours, seconds and nanoseconds
Add(t, dh, ds, dn) ==
    LET n2 == t.n + dn
        s2 == t.s + ds + (n2 \div NanosPerSecond)
    IN  [h |-> t.h + dh + (s2 \div SecondsPerHour),
         s |-> s2 % SecondsPerHour,
         n |-> n2 % NanosPerSecond]

\* Time.Before
Before(a, b) ==
    \/ a.h < b.h
    \/ a.h = b.h /\ a.s < b.s
    \/ a.h = b.h /\ a.s = b.s /\ a.n < b.n

\* the zone designator of a formatted instant, as the tokens of the text
ZoneZ == [c |-> "Z", v |-> 0]
ZoneSign(sign) == [c |-> sign, v |-> 0]
ZoneDigits(hh) == [c |-> "hh:mm", v |-> hh]

\* the wall clock of instant t in a zone off hours east of UTC
WallDay(t, off) == (t.h + off) \div HoursPerDay
WallHour(t, off) == (t.h + off) % HoursPerDay

\* the "03" verb of a layout: the hour on the 12-hour clock
Hour12(hour) == IF hour % 12 = 0 THEN 12 ELSE hour % 12

\* Time.Format("2006-01-02T03:04:05.9999999Z"): local wall clock, 12-hour
\* hour, seven fractional digits (truncated), then the literal letter Z
FormatStamp12(t, off) ==
    [day |-> WallDay(t, off), hh |-> Hour12(WallHour(t, off)), s |-> t.s,
     frac |-> (t.n \div 100) * 100, tail |-> <<ZoneZ>>]

\* Time.Format(time.RFC3339Nano): local wall clock, 24-hour hour, nine
\* fractional digits, then Z for UTC or the signed offset
FormatRFC3339Nano(t, off) ==
    [day |-> WallDay(t, off), hh |-> WallHour(t, off), s |-> t.s,
     frac |-> t.n,
     tail |-> IF off = 0 THEN <<ZoneZ>>
              ELSE IF off > 0 THEN <<ZoneSign("+"), ZoneDigits(off)>>
              ELSE <<ZoneSign("-"), ZoneDigits(0 - off)>>]

\* the tokens of a zone designator before its first "+"
RECURSIVE BeforePlus(_)
BeforePlus(tail) ==
    IF tail = <<>> THEN <<>>
    ELSE IF Head(tail).c = "+" THEN <<>>
    ELSE <<Head(tail)>> \o BeforePlus(Tail(tail))

\* strings.Split(text, "+")[0] + "Z": the date and time of day hold no "+"
SplitPlusZ(text) == [text EXCEPT !.tail = Append(BeforePlus(text.tail), ZoneZ)]

\* whether the zone designator is one that layout Z07:00 accepts
ZoneParses(tail) ==
    \/ Len(tail) = 1 /\ tail[1].c = "Z"
    \/ Len(tail) = 2 /\ tail[1].c \in {"+", "-"} /\ tail[2].c = "hh:mm"

\* the offset a zone designator that parses stands for
ZoneOffset(tail) ==
    IF Len(tail) = 1 THEN 0
    ELSE IF tail[1].c = "+" THEN tail[2].v ELSE 0 - tail[2].v

\* func() time.Time { t, _ := time.Parse(time.RFC3339Nano, text); return t }()
\* the hour is read on the 24-hour clock; the error is dropped and the zero
\* Time comes back with it
ParseRFC3339Nano(text) ==
    IF ZoneParses(text.tail)
    THEN [h |-> (text.day * HoursPerDay) + text.hh - ZoneOffset(text.tail),
          s |-> text.s, n |-> text.frac]
    ELSE ZeroTime

(***************************************************************************)
(* The signing requests.                                                   *)
(***************************************************************************)
\* variant: genSaSToken asks for the permissions printSasToken spells out
\* (Create, Delete, List, Add)
genSaSTokenPermissionsWide == {"c", "d", "l", "a"}

\* sas.ContainerPermissions{Read: true, List: true} of genSaSToken
genSaSTokenPermissions == {"r", "l"}

\* armstorage.PermissionsR
PermissionsR == {"r"}

\* sas.BlobSignatureValues of genSaSToken: StartTime is the first time.Now(),
\* ExpiryTime the second one plus 15 minutes
BlobSignatureValues(now, elapsed) ==
    [api |-> "SignWithSharedKey", now |-> now, start |-> now,
     expiry |-> Add(Add(now, 0, 0, elapsed), 0, 15 * 60, 0),
     perms |-> genSaSTokenPermissions]

\* tomorrow of part_000:205, parsed back at part_000:211
Tomorrow12(now, off) == ParseRFC3339Nano(FormatStamp12(Add(now, 24, 0, 0), off))

\* today and tomorrow of part_000:354-357, parsed back at part_000:362-367
TodaySplit(now, off) ==
    ParseRFC3339Nano(SplitPlusZ(FormatRFC3339Nano(now, off)))
TomorrowSplit(now, off) ==
    ParseRFC3339Nano(SplitPlusZ(FormatRFC3339Nano(Add(now, 24, 0, 0), off)))

\* armstorage.AccountSasParameters of the two programs that call
\* ListAccountSAS
AccountSasParameters(prog, now, off) ==
    [api |-> "ListAccountSAS", now |-> now,
     start |-> IF prog = Part2 THEN now ELSE TodaySplit(now, off),
     expiry |-> IF prog = Part2 THEN Tomorrow12(now, off)
                ELSE TomorrowSplit(now, off),
     perms |-> PermissionsR]

(***************************************************************************)
(* The remote collaborators: each call succeeds, answers with a response   *)
(* error (an azcore.ResponseError) or fails with an error of another type.   *)
(***************************************************************************)
\* BlobContainersClient.Get: 404 exactly when the container is absent
GetOutcomes(exists) ==
    IF exists THEN {"ok", "respOther", "nonResp"}
    ELSE {"notFound", "respOther", "nonResp"}

\* BlobContainersClient.Create
CreateOutcomes == {"ok", "respOther", "nonResp"}

\* azblob.Client.CreateContainer: ContainerAlreadyExists exactly when the
\* container is present
CreateContainerOutcomes(exists) ==
    IF exists THEN {"alreadyExists", "respOther", "nonResp"}
    ELSE {"ok", "respOther", "nonResp"}

\* AccountsClient.ListAccountSAS and SignWithSharedKey
SignOutcomes == {"ok", "respOther", "nonResp"}

\* errors.As(err, &respErr)
IsResponseError(res) == res \in {"notFound", "alreadyExists", "respOther"}

(***************************************************************************)
(* Control flow of main.                                                   *)
(***************************************************************************)
\* variant: the length test on the environment variable is left out
EnvMissingUnchecked(prog, sub, key) == FALSE

\* the environment variable main reads is empty
EnvMissing(prog, sub, key) ==
    IF prog = MainGo THEN Len(key) = 0 ELSE Len(sub) = 0

\* from the start of main to its first remote call
StartupBranch(prog, sub, key, credOk) ==
    IF EnvMissing(prog, sub, key) THEN "fatal"
    ELSE IF ~credOk THEN "fatal"
    ELSE IF prog = MainGo THEN "createContainer"
    ELSE "lookup"

\* variant: the StatusCode test is left out, every response error creates
LookupBranchNoStatus(prog, res) ==
    IF res = "ok" THEN "done"
    ELSE IF IsResponseError(res) THEN "create"
    ELSE "fatal"

\* the branch taken on the result of the first getBlobContainer
LookupBranch(prog, res) ==
    IF prog = Part2
    THEN IF IsResponseError(res)
         THEN IF res = "notFound" THEN "create" ELSE "fatal"
         ELSE IF res = "ok" THEN "done" ELSE "panic"
    ELSE IF res # "ok"
         THEN IF IsResponseError(res)
              THEN IF res = "notFound" THEN "create" ELSE "fatal"
              ELSE "fatal"
         ELSE "done"

\* variant: the confirmation lookup is left out
CreateBranchNoConfirm(res) == IF res # "ok" THEN "fatal" ELSE "sign"

\* variant: a failed create is tried again
CreateBranchRetry(res) == IF res # "ok" THEN "create" ELSE "confirm"

\* after createBlobContainers
CreateBranch(res) == IF res # "ok" THEN "fatal" ELSE "confirm"

\* variant: err_again is not tested
ConfirmBranchUnchecked(prog, res) == IF prog = Part1 THEN "done" ELSE "sign"

\* after the second getBlobContainer
ConfirmBranch(prog, res) ==
    IF res # "ok" THEN "fatal"
    ELSE IF prog = Part1 THEN "done"
    ELSE "sign"

\* after the signing call
SignBranch(res) == IF res # "ok" THEN "fatal" ELSE "done"

\* the branch taken on the result of blob_client.CreateContainer
CreateContainerBranch(res) ==
    IF IsResponseError(res)
    THEN IF res = "alreadyExists" THEN "genSaSToken" ELSE "fatal"
    ELSE IF res = "ok" THEN "genSaSToken" ELSE "panic"

\* exit status of the process: 0 from main returning, 1 from log.Fatal, 2 from
\* a nil pointer dereference
ExitCode(at) == IF at = "done" THEN 0 ELSE IF at = "fatal" THEN 1 ELSE 2

VARIABLES program, subscriptionID, accountKey, container, pc, calls,
          sasRequests, stdout

vars == <<program, subscriptionID, accountKey, container, pc, calls,
          sasRequests, stdout>>

Init ==
    /\ program \in Programs
    /\ subscriptionID \in {"", "0000-sub"}
    /\ accountKey \in {"", "a2V5"}
    /\ container \in BOOLEAN
    /\ pc = "start"
    /\ calls = <<>>
    /\ sasRequests = <<>>
    /\ stdout = <<>>

\* os.Getenv, the credential and the clients
Startup ==
    /\ pc = "start"
    /\ \E credOk \in BOOLEAN :
         pc' = StartupBranch(program, subscriptionID, accountKey, credOk)
    /\ UNCHANGED <<program, subscriptionID, accountKey, container, calls,
                   sasRequests, stdout>>

\* the first getBlobContainer and the branch on its result
getBlobContainer ==
    /\ pc = "lookup"
    /\ \E res \in GetOutcomes(container) :
         /\ calls' = Append(calls, [op |-> "get", res |-> res])
         /\ pc' = LookupBranch(program, res)
         /\ stdout' = IF LookupBranch(program, res) = "done"
                      THEN Append(stdout, "id") ELSE stdout
    /\ UNCHANGED <<program, subscriptionID, accountKey, container,
                   sasRequests>>

\* createBlobContainers
createBlobContainers ==
    /\ pc = "create"
    /\ \E res \in CreateOutcomes :
         /\ calls' = Append(calls, [op |-> "create", res |-> res])
         /\ container' = (container \/ res = "ok")
         /\ pc' = CreateBranch(res)
    /\ UNCHANGED <<program, subscriptionID, accountKey, sasRequests, stdout>>

\* the second getBlobContainer ("Double check")
getBlobContainerAgain ==
    /\ pc = "confirm"
    /\ \E res \in GetOutcomes(container) :
         /\ calls' = Append(calls, [op |-> "get", res |-> res])
         /\ pc' = ConfirmBranch(program, res)
    /\ UNCHANGED <<program, subscriptionID, accountKey, container,
                   sasRequests, stdout>>

\* the window and client.ListAccountSAS
ListAccountSAS ==
    /\ pc = "sign"
    /\ program \in {Part2, Part3}
    /\ \E now \in Instants, off \in TZOffsets, res \in SignOutcomes :
         /\ sasRequests' =
                Append(sasRequests, AccountSasParameters(program, now, off))
         /\ calls' = Append(calls, [op |-> "sign", res |-> res])
         /\ pc' = SignBranch(res)
         /\ stdout' = IF res = "ok" THEN Append(stdout, "token") ELSE stdout
    /\ UNCHANGED <<program, subscriptionID, accountKey, container>>

\* blob_client.CreateContainer and the branch on its result
CreateContainer ==
    /\ pc = "createContainer"
    /\ \E res \in CreateContainerOutcomes(container) :
         /\ calls' = Append(calls, [op |-> "create", res |-> res])
         /\ container' = (container \/ res = "ok")
         /\ pc' = CreateContainerBranch(res)
    /\ UNCHANGED <<program, subscriptionID, accountKey, sasRequests, stdout>>

\* genSaSToken: SignWithSharedKey and the printed URL
genSaSToken ==
    /\ pc = "genSaSToken"
    /\ \E now \in Instants, elapsed \in 0..MaxElapsed, res \in {"ok", "nonResp"} :
         /\ sasRequests' =
                Append(sasRequests, BlobSignatureValues(now, elapsed))
         /\ calls' = Append(calls, [op |-> "sign", res |-> res])
         /\ pc' = SignBranch(res)
         /\ stdout' = IF res = "ok" THEN Append(stdout, "token") ELSE stdout
    /\ UNCHANGED <<program, subscriptionID, accountKey, container>>

Next ==
    \/ Startup
    \/ getBlobContainer
    \/ createBlobContainers
    \/ getBlobContainerAgain
    \/ ListAccountSAS
    \/ CreateContainer
    \/ genSaSToken

Spec == Init /\ [][Next]_vars

\* the process has ended
Terminal == pc \in {"done", "fatal", "panic"}

(***************************************************************************)
(* Vocabulary of the properties.                                           *)
(***************************************************************************)
\* number of calls of one remote operation so far
Count(op) == Cardinality({i \in 1..Len(calls) : calls[i].op = op})

\* the first remote call was a lookup with this result
FirstLookup(res) ==
    Len(calls) >= 1 /\ calls[1] = [op |-> "get", res |-> res]

\* the container was present when the run started: create is the only
\* operation that changes it
ExistedAtStart ==
    /\ container
    /\ \A i \in 1..Len(calls) : calls[i] # [op |-> "create", res |-> "ok"]

\* lookup not-found, create succeeded, confirmation lookup succeeded
CreatedAndVerified ==
    /\ Len(calls) >= 3
    /\ calls[1] = [op |-> "get", res |-> "notFound"]
    /\ calls[2] = [op |-> "create", res |-> "ok"]
    /\ calls[3] = [op |-> "get", res |-> "ok"]

\* call i is a failed create, a failed confirmation lookup or a failed
\* signing call (not-found at the first lookup and ContainerAlreadyExists
\* are the answers the programs recover from)
FailedStep(i) ==
    \/ calls[i].op = "create" /\ calls[i].res \in {"respOther", "nonResp"}
    \/ calls[i].op = "get" /\ i > 1 /\ calls[i].res # "ok"
    \/ calls[i].op = "sign" /\ calls[i].res # "ok"

(***************************************************************************)
(* C1: a run whose first lookup answers not-found and in which no later    *)
(* remote call fails ends normally after exactly one create followed by a  *)
(* successful confirmation lookup, and the container then exists.          *)
(***************************************************************************)
C1_CreateThenVerify ==
    ( /\ Terminal
      /\ FirstLookup("notFound")
      /\ \A i \in 2..Len(calls) : calls[i].res = "ok" )
    => ( /\ pc = "done"
         /\ CreatedAndVerified
         /\ Count("create") = 1
         /\ container )

C1_Witness ==
    /\ pc = "done"
    /\ CreatedAndVerified
    /\ Count("create") = 1
    /\ container

(***************************************************************************)
(* C2 as stated: a container present at the start is never the subject of  *)
(* a create call.                                                          *)
(***************************************************************************)
C2_NoCreateWhenPresent == ExistedAtStart => Count("create") = 0

(***************************************************************************)
(* C2 amended: the programs that look the container up first issue no      *)
(* create call for a container present at the start; main.go looks nothing *)
(* up, issues its single create call all the same, and takes the answer    *)
(* ContainerAlreadyExists as the container being there: it goes on to sign *)
(* rather than ending fatally on that answer.                              *)
(***************************************************************************)
C2_NoCreateAfterLookupFound ==
    ExistedAtStart =>
        /\ program \in LookupFirst => Count("create") = 0
        /\ program = MainGo =>
             /\ Count("create") <= 1
             /\ Count("get") = 0
             /\ (Len(calls) >= 1 /\ calls[1].res = "alreadyExists")
                  => \/ pc = "genSaSToken"
                     \/ Len(calls) = 2 /\ calls[2].op = "sign"

C2_Witness ==
    /\ program \in LookupFirst
    /\ ExistedAtStart
    /\ FirstLookup("ok")
    /\ pc = "done"

(***************************************************************************)
(* C3 as stated: when the first lookup fails with anything but not-found   *)
(* (a response error with another status, or an error of another type)     *)
(* the run ends in the fatal state with a non-zero exit, without a create  *)
(* call and without a signing call.                                        *)
(***************************************************************************)
C3_LookupErrorIsFatal ==
    (FirstLookup("respOther") \/ FirstLookup("nonResp"))
    => ( /\ pc = "fatal"
         /\ ExitCode(pc) # 0
         /\ Count("create") = 0
         /\ Count("sign") = 0 )

(***************************************************************************)
(* C4 as stated: every signing request carries an expiry strictly later    *)
(* than its start.                                                         *)
(***************************************************************************)
C4_ExpiryAfterStart ==
    \A i \in 1..Len(sasRequests) :
        Before(sasRequests[i].start, sasRequests[i].expiry)

(***************************************************************************)
(* C5 as stated: when a token is issued, the window of its request starts  *)
(* at the instant captured for it and ends exactly 24 hours later.         *)
(***************************************************************************)
C5_Window24h ==
    (Len(stdout) >= 1 /\ stdout[Len(stdout)] = "token")
    => \A i \in 1..Len(sasRequests) :
         /\ sasRequests[i].start = sasRequests[i].now
         /\ sasRequests[i].expiry = Add(sasRequests[i].start, 24, 0, 0)

(***************************************************************************)
(* C6 as stated: with either AZURE_SUBSCRIPTION_ID or AZURE_ACCOUNT_KEY    *)
(* empty, the run ends fatally before any remote call.                     *)
(***************************************************************************)
C6_EitherVariableRequired ==
    (Len(subscriptionID) = 0 \/ Len(accountKey) = 0)
    => ( /\ calls = <<>>
         /\ pc \in {"start", "fatal"} )

(***************************************************************************)
(* C6 amended: each program ends fatally (exit 1) before any remote call   *)
(* when the one variable it reads is empty: AZURE_ACCOUNT_KEY for main.go, *)
(* AZURE_SUBSCRIPTION_ID for the programs of part_000.                     *)
(***************************************************************************)
C6_ReadVariableRequired ==
    ( \/ program = MainGo /\ Len(accountKey) = 0
      \/ program \in LookupFirst /\ Len(subscriptionID) = 0 )
    => ( /\ calls = <<>>
         /\ pc \in {"start", "fatal"}
         /\ pc = "fatal" => ExitCode(pc) = 1 )

C6_Witness ==
    /\ program = MainGo
    /\ Len(accountKey) = 0
    /\ Len(subscriptionID) > 0
    /\ pc = "fatal"
    /\ calls = <<>>

(***************************************************************************)
(* C7 as stated: a failed create, confirmation lookup or signing call is   *)
(* the last remote call of the run, which ends in the fatal state with a   *)
(* non-zero exit and prints no token.                                      *)
(***************************************************************************)
C7_FailedStepIsFatal ==
    \A i \in 1..Len(calls) :
        FailedStep(i) =>
            /\ i = Len(calls)
            /\ pc = "fatal"
            /\ ExitCode(pc) # 0
            /\ \A j \in 1..Len(stdout) : stdout[j] # "token"

(***************************************************************************)
(* C8: every signing request asks for read access (read, and for the       *)
(* container signature of main.go also list) and none grants create,       *)
(* delete, add or write.                                                   *)
(***************************************************************************)
C8_ReadOnlyPermissions ==
    \A i \in 1..Len(sasRequests) :
        /\ "r" \in sasRequests[i].perms
        /\ sasRequests[i].perms \subseteq {"r", "l"}
        /\ sasRequests[i].perms \cap {"c", "d", "a", "w"} = {}

C8_Witness ==
    /\ program = MainGo
    /\ pc = "done"
    /\ Len(sasRequests) = 1
    /\ stdout = <<"token">>

(***************************************************************************)
(* C9 as stated: a signing call is made only as the fourth call, after     *)
(* lookup not-found, create and a successful confirmation, in that order;  *)
(* a run that found the container prints its identifier and stops without  *)
(* signing; a run that created and verified the container makes the        *)
(* signing call before it stops.                                           *)
(***************************************************************************)
C9_Flow ==
    /\ \A i \in 1..Len(calls) :
         calls[i].op = "sign" => (i = 4 /\ CreatedAndVerified)
    /\ (Terminal /\ ExistedAtStart /\ pc = "done")
         => (stdout = <<"id">> /\ Count("sign") = 0)
    /\ (Terminal /\ CreatedAndVerified) => Count("sign") = 1

(***************************************************************************)
(* C9 amended: the flow START -> CHECK_EXISTENCE -> {EXISTS -> STOP |       *)
(* NOT_FOUND -> CREATE -> VERIFY -> ISSUE_TOKEN -> STOP} is that of the two *)
(* programs of part_000 that sign: there a signing call is made only as    *)
(* the fourth call, after lookup not-found, create and a successful        *)
(* confirmation, a run whose lookup found the container prints the         *)
(* identifier and stops without signing, and a run that created and        *)
(* verified makes the signing call and prints the token when it succeeds.  *)
(* The first program of part_000 follows the same flow without             *)
(* ISSUE_TOKEN; main.go follows START -> CREATE -> ISSUE_TOKEN -> STOP,     *)
(* signing as its second call after a create answered with success or      *)
(* ContainerAlreadyExists, and never looks up.                             *)
(***************************************************************************)
C9_FlowPerProgram ==
    /\ program \in {Part2, Part3} =>
         /\ \A i \in 1..Len(calls) :
              calls[i].op = "sign" => (i = 4 /\ CreatedAndVerified)
         /\ (Terminal /\ CreatedAndVerified) =>
              /\ Len(calls) = 4
              /\ calls[4].op = "sign"
              /\ calls[4].res = "ok" => (pc = "done" /\ stdout = <<"token">>)
    /\ program = Part1 => Count("sign") = 0
    /\ program \in LookupFirst =>
         (FirstLookup("ok") =>
            (pc = "done" /\ stdout = <<"id">> /\ Len(calls) = 1))
    /\ program = MainGo =>
         /\ Count("get") = 0
         /\ \A i \in 1..Len(calls) :
              calls[i].op = "sign" =>
                 /\ i = 2
                 /\ calls[1].op = "create"
                 /\ calls[1].res \in {"ok", "alreadyExists"}

C9_Witness ==
    /\ program \in {Part2, Part3}
    /\ CreatedAndVerified
    /\ Len(calls) = 4
    /\ calls[4] = [op |-> "sign", res |-> "ok"]
    /\ pc = "done"
    /\ stdout = <<"token">>

(***************************************************************************)
(* C10: nothing is retried: at most one create call, at most one signing   *)
(* call, at most two lookups (the second one only after a successful       *)
(* create), at most four remote calls in all, and a run that has made its  *)
(* last possible call has ended.                                           *)
(***************************************************************************)
C10_NoRetry ==
    /\ Count("create") <= 1
    /\ Count("sign") <= 1
    /\ Count("get") <= 2
    /\ Count("get") = 2 =>
         /\ calls[1] = [op |-> "get", res |-> "notFound"]
         /\ calls[2] = [op |-> "create", res |-> "ok"]
         /\ calls[3].op = "get"
    /\ Len(calls) <= 4
    /\ Count("sign") = 1 => Terminal

C10_Witness ==
    /\ Terminal
    /\ Len(calls) = 4
    /\ Count("get") = 2
    /\ Count("create") = 1
    /\ Count("sign") = 1

\* the run went into the branch of the first lookup that reads
\* *blobContainer.ID: it either printed the identifier and returned, or
\* dereferenced a nil container there
TookExistsBranch ==
    /\ program \in LookupFirst
    /\ Len(calls) = 1
    /\ calls[1].op = "get"
    /\ pc \in {"done", "panic"}

(***************************************************************************)
(* C11 as stated: the branch 'container already exists', which reads the   *)
(* identifier of the looked-up container, is taken only when the lookup    *)
(* returned a container and no error; after a lookup error of any kind,    *)
(* response error or not, the run is not in that branch, dereferences      *)
(* nothing and prints no identifier.                                       *)
(***************************************************************************)
C11_ExistsBranchOnlyWhenFound ==
    /\ TookExistsBranch => FirstLookup("ok")
    /\ \A res \in {"notFound", "respOther", "nonResp"} :
         FirstLookup(res) =>
            /\ pc # "panic"
            /\ \A j \in 1..Len(stdout) : stdout[j] # "id"
====
